---------------------------- MODULE Spec2Model ----------------------------
(***************************************************************************)
(* A model of perkeep/datasets/pipeline.py: the sample pipeline            *)
(* (Pipeline.append_reduced_samples, get, split), the ReducedSample view   *)
(* and the XYAdapter (cyclic iteration and batching).                      *)
(*                                                                         *)
(* A sample is [data, layers, aug]: data is the caller's dict, layers the  *)
(* stack of ReducedSample wrappers around it (innermost first) and aug the *)
(* trace of the extenders that produced it.  A lookup result is a record   *)
(* [t, v]: t = "val" with the value v, t = "none" for Python's None, and   *)
(* any other t is the name of the exception the lookup raises.             *)
(***************************************************************************)
EXTENDS Integers, Sequences, FiniteSets, TLC

\* ------------------------------------------------------------------ bounds
MaxInput == 3
MaxFilters == 2
MaxReducers == 2
MaxMutations == 2
MaxSamples == 2
MaxExtenders == 2
MaxShuffleLen == 4
MaxStored == 3
MaxBatchSize == 3
MaxIterations == 2
MaxGenerators == 1
MaxPulls == 7
MaxSpin == 2

\* ------------------------------------------------------ program constants
DefaultBatchSize == 128
TrainTenths == 8
ValidateTenths == 1
TestTenths == 1

\* ------------------------------------------------- the caller's input values
ProbeIds == {"a", "b", "c"}

MkSample(d) == [data |-> d, layers |-> <<>>, aug |-> <<>>]

\* Three dict samples: S1 passes a_pos only, S2 passes no filter and has no
\* "c", S3 has no "a" and passes b_big.
Corpus == { MkSample([a |-> 1, b |-> 0, c |-> 3]),
            MkSample([a |-> 0, b |-> 0]),
            MkSample([b |-> 2, c |-> 0]) }

FilterNames == {"a_pos", "b_big"}

\* A reducer of the configuration: a callable (f names it) or a key
\* collection (ref is its address among the caller's lists, keylists).
CallableReducer(f) == [callable |-> TRUE, f |-> f, ref |-> 0]
KeyReducer(r) == [callable |-> FALSE, f |-> "", ref |-> r]
ReducerChoices == {CallableReducer("inc_a"), KeyReducer(1), KeyReducer(2)}

\* The caller's two key collections as first configured.
KeyLists0 == << <<"c", "a">>, <<"b", "c">> >>

\* The filter and reducer lists get and split are tried with.
FilterLists == {<<>>, <<"a_pos", "b_big">>}
ReducerLists == {<<>>, <<KeyReducer(1)>>, <<CallableReducer("inc_a"), KeyReducer(2)>>}

\* Extenders: each yields one variant of its sample per label, in this order.
ExtenderNames == {"e2", "e3", "e0"}
ExtLabels(e) ==
    IF e = "e2" THEN <<"p", "q">>
    ELSE IF e = "e3" THEN <<"u", "v", "w">>
    ELSE <<>>

\* Pipeline.categories as constructed, in tenths, and a configuration
\* without "train"
DefaultCategories ==
    [train |-> TrainTenths, validate |-> ValidateTenths, test |-> TestTenths]
CategoryChoices == {DefaultCategories, [validate |-> 5, test |-> 5]}
CategoryOrder == <<"train", "validate", "test">>

SeqsUpTo(S, n) == UNION {[1..k -> S] : k \in 0..n}

ToSet(s) == {s[i] : i \in DOMAIN s}

VARIABLES
    filters,      \* Pipeline.filters
    reducers,     \* Pipeline.reducers
    categories,   \* Pipeline.categories
    extenders,    \* Pipeline.extenders
    mapper,       \* Pipeline.mapper
    batch_size,   \* Pipeline.batch_size
    shuffle,      \* Pipeline.shuffle
    keylists,     \* the caller's key-collection objects, by address
    op,           \* the public operation called
    input,        \* its samples argument
    prior,        \* the sink's contents when the call was made
    sink,         \* samples_output
    idx,          \* the position of the generator _reduced_samples in input
    pc,           \* "idle" | "run" | "done" | "raised"
    err,          \* the exception that reached the caller
    mutations,    \* the number of changes the caller made to its key lists
    splitted_samples,  \* split: what common.split returned
    adapter,      \* get: the XYAdapter returned
    adapters,     \* split: the dict of XYAdapters returned
    xy,           \* the XYAdapter being consumed
    iters,        \* the generators iter(xy) returned, in order of creation
    gens,         \* the generators xy.batch_arrays() returned
    running,      \* the generator a next() call is executing, if any
    spins,        \* turns of "while True" in that call so far (to MaxSpin)
    pulls,        \* next() calls the consumer made
    returned,     \* next() calls that came back, with a value or an exception
    mapper_calls  \* calls of xy.mapper

pipelineVars == <<filters, reducers, categories, extenders, mapper, batch_size,
                  shuffle>>
callVars == <<op, input, prior, sink, idx, pc, err>>
resultVars == <<splitted_samples, adapter, adapters>>

consumerVars == <<xy, iters, gens, running, spins, pulls, returned, mapper_calls>>

vars == <<pipelineVars, keylists, mutations, callVars, resultVars, consumerVars>>

\* ------------------------------------------------------------- lookup
Val(v) == [t |-> "val", v |-> v]
NoneV == [t |-> "none", v |-> 0]
Exc(e) == [t |-> e, v |-> 0]

\* d[probe_id] on a dict
DictGet(d, k) == IF k \in DOMAIN d THEN Val(d[k]) ELSE Exc("KeyError")

Top(s) == s.layers[Len(s.layers)]
Delegate(s) == [s EXCEPT !.layers = SubSeq(s.layers, 1, Len(s.layers) - 1)]
IsReduced(s) == s.layers # <<>>

\* ReducedSample.__init__
ReducedSample(delegate, ref) ==
    [delegate EXCEPT !.layers =
        Append(@, [reduction |-> ref, reduction_set |-> ToSet(keylists[ref])])]

\* a lookup that ignores the reduction set
GetItemUnrestricted(s, k) == DictGet(s.data, k)

\* ReducedSample.__getitem__ (a dict at the bottom)
RECURSIVE GetItem(_, _)
GetItem(s, k) ==
    IF ~IsReduced(s) THEN DictGet(s.data, k)
    ELSE IF k \in Top(s).reduction_set THEN GetItem(Delegate(s), k)
    ELSE NoneV

\* ReducedSample.keys
KeysOf(s) == keylists[Top(s).reduction]

\* ------------------------------------------------ caller-supplied callables
\* lambda s: s['a'] > 0   and   lambda s: s['b'] > 1
CallFilter(f, s) ==
    LET x == GetItem(s, IF f = "a_pos" THEN "a" ELSE "b")
        limit == IF f = "a_pos" THEN 0 ELSE 1
    IN  IF x.t = "val" THEN (IF x.v > limit THEN "True" ELSE "False")
        ELSE IF x.t = "none" THEN "TypeError"
        ELSE x.t

Ok(s) == [t |-> "ok", s |-> s]
Fail(e, s) == [t |-> e, s |-> s]

\* lambda s: {'a': s['a'] + 1}
CallReducer(f, s) ==
    LET x == GetItem(s, "a")
    IN  IF x.t = "val" THEN Ok(MkSample([k \in {"a"} |-> x.v + 1]))
        ELSE IF x.t = "none" THEN Fail("TypeError", s)
        ELSE Fail(x.t, s)

\* ------------------------------------------------------- filter and reduce
\* any(map(lambda f: f(sample), self.filters)): left to right, stopping at
\* the first true result or exception
RECURSIVE AnyFrom(_, _, _)
AnyFrom(fs, s, i) ==
    IF i > Len(fs) THEN "False"
    ELSE LET r == CallFilter(fs[i], s)
         IN  IF r = "False" THEN AnyFrom(fs, s, i + 1) ELSE r

\* all(...) in place of any(...)
RECURSIVE AllFrom(_, _, _)
AllFrom(fs, s, i) ==
    IF i > Len(fs) THEN "True"
    ELSE LET r == CallFilter(fs[i], s)
         IN  IF r = "True" THEN AllFrom(fs, s, i + 1) ELSE r

AnyFilterAll(fs, s) == AllFrom(fs, s, 1)

AnyFilter(fs, s) == AnyFrom(fs, s, 1)

\* a filter's exception caught and read as "no"
SkipSampleCaught(fs, s) ==
    IF Len(fs) > 0
    THEN LET r == AnyFilter(fs, s)
         IN  IF r = "True" THEN "keep" ELSE "skip"
    ELSE "keep"

\* the condition of the continue in _reduced_samples: "skip", "keep" or the
\* exception a filter raised
SkipSample(fs, s) ==
    IF Len(fs) > 0
    THEN LET r == AnyFilter(fs, s)
         IN  IF r = "True" THEN "keep" ELSE IF r = "False" THEN "skip" ELSE r
    ELSE "keep"

\* one turn of the loop of _reduce_sample
ApplyReducer(r, s) ==
    IF r.callable THEN CallReducer(r.f, s) ELSE Ok(ReducedSample(s, r.ref))

RECURSIVE ReduceFrom(_, _, _)
ReduceFrom(rs, s, i) ==
    IF i > Len(rs) THEN Ok(s)
    ELSE LET r == ApplyReducer(rs[i], s)
         IN  IF r.t = "ok" THEN ReduceFrom(rs, r.s, i + 1) ELSE r

ReduceSample(s) == ReduceFrom(reducers, s, 1)

\* one turn of the loop of _reduced_samples: t is "skip", "yield" (s is the
\* reduced sample) or the exception raised
ReducedNext(s) ==
    LET k == SkipSample(filters, s)
    IN  IF k = "skip" THEN [t |-> "skip", s |-> s]
        ELSE IF k # "keep" THEN Fail(k, s)
        ELSE LET r == ReduceSample(s)
             IN  IF r.t = "ok" THEN [t |-> "yield", s |-> r.s] ELSE r

\* ------------------------------------------------------------------ Init
\* XYAdapter.__init__
XYAdapter(samples, m, b) == [samples |-> samples, mapper |-> m, batch_size |-> b]

NoAdapter == XYAdapter(<<>>, "none", 0)

\* no call made yet, nothing returned
NoCall ==
    /\ op = "none"
    /\ idx = 0
    /\ pc = "idle"
    /\ err = "none"
    /\ mutations = 0
    /\ splitted_samples = <<>>
    /\ adapter = NoAdapter
    /\ adapters = <<>>

Nobody == [kind |-> "none", id |-> 0]

\* no adapter is being consumed
NoConsumer ==
    /\ xy = NoAdapter
    /\ iters = <<>>
    /\ gens = <<>>
    /\ running = Nobody
    /\ spins = 0
    /\ pulls = 0
    /\ returned = 0
    /\ mapper_calls = 0

\* Pipeline.__init__ for the fields the caller leaves alone
Defaults ==
    /\ mapper = "identity"
    /\ batch_size = DefaultBatchSize
    /\ keylists = KeyLists0

\* a pipeline with filters and reducers configured, and a sink
Init ==
    /\ filters \in SeqsUpTo(FilterNames, MaxFilters)
    /\ reducers \in SeqsUpTo(ReducerChoices, MaxReducers)
    /\ categories = DefaultCategories
    /\ extenders = <<>>
    /\ shuffle = TRUE
    /\ Defaults
    /\ input \in SeqsUpTo(Corpus, MaxInput)
    /\ prior \in {<<>>, <<MkSample([a |-> 1, b |-> 0, c |-> 3])>>}
    /\ sink = prior
    /\ NoCall
    /\ NoConsumer

\* ------------------------------------------- append_reduced_samples
\* the call: the generator is created, nothing is examined yet
CallAppend ==
    /\ pc = "idle"
    /\ op' = "append"
    /\ pc' = "run"
    /\ idx' = 1
    /\ UNCHANGED <<pipelineVars, keylists, mutations, resultVars, consumerVars,
                   input, prior, sink, err>>

\* samples_output.append(sample)
SinkAppend(out, s) == Append(out, s)

\* one turn of "for sample in self._reduced_samples(samples_input)"
AppendStep ==
    /\ pc = "run"
    /\ op = "append"
    /\ IF idx > Len(input)
       THEN /\ pc' = "done"
            /\ UNCHANGED <<sink, idx, err>>
       ELSE LET o == ReducedNext(input[idx])
            IN  IF o.t = "skip"
                THEN /\ idx' = idx + 1
                     /\ UNCHANGED <<sink, pc, err>>
                ELSE IF o.t = "yield"
                THEN /\ sink' = SinkAppend(sink, o.s)
                     /\ idx' = idx + 1
                     /\ UNCHANGED <<pc, err>>
                ELSE /\ pc' = "raised"
                     /\ err' = o.t
                     /\ UNCHANGED <<sink, idx>>
    /\ UNCHANGED <<pipelineVars, keylists, mutations, resultVars, consumerVars,
                   op, input, prior>>

Next == CallAppend \/ AppendStep

Spec == Init /\ [][Next]_vars

\* ------------------------------------- the caller changes a key collection
Reverse(s) == [i \in DOMAIN s |-> s[Len(s) + 1 - i]]

\* list.append(k), list.pop(), list.reverse() on a list the caller configured
\* as a reducer; the caller acts only while no pipeline call is running
ListChanges(old) ==
    ({Append(old, k) : k \in ProbeIds \ ToSet(old)}
        \cup {SubSeq(old, 1, Len(old) - 1)} \cup {Reverse(old)}) \ {old}

MutateReduction ==
    /\ pc \in {"idle", "done", "raised"}
    /\ mutations < MaxMutations
    /\ \E r \in DOMAIN keylists : \E new \in ListChanges(keylists[r]) :
          keylists' = [keylists EXCEPT ![r] = new]
    /\ mutations' = mutations + 1
    /\ UNCHANGED <<pipelineVars, callVars, resultVars, consumerVars>>

NextMutate == CallAppend \/ AppendStep \/ MutateReduction

SpecMutate == Init /\ [][NextMutate]_vars

\* ------------------------------------------------------- get and split
\* list(self._reduced_samples(samples)): the generator run to its end; t is
\* "ok" (list is the result) or the exception raised on the way
RECURSIVE ReducedFrom(_, _, _)
ReducedFrom(samples, i, acc) ==
    IF i > Len(samples) THEN [t |-> "ok", list |-> acc]
    ELSE LET o == ReducedNext(samples[i])
         IN  IF o.t = "skip" THEN ReducedFrom(samples, i + 1, acc)
             ELSE IF o.t = "yield" THEN ReducedFrom(samples, i + 1, Append(acc, o.s))
             ELSE [t |-> o.t, list |-> acc]

ReducedSamples(samples) == ReducedFrom(samples, 1, <<>>)

\* extender(s)
Extend(e, s) ==
    [i \in DOMAIN ExtLabels(e) |-> [s EXCEPT !.aug = Append(@, ExtLabels(e)[i])]]

\* itertools.chain(*lists)
RECURSIVE Chain(_)
Chain(lists) ==
    IF lists = <<>> THEN <<>> ELSE Head(lists) \o Chain(Tail(lists))

\* every extender applied to the sample itself, the results side by side
ExtendEachOriginal(exts, list, i) ==
    IF exts = <<>> THEN list
    ELSE Chain([j \in DOMAIN exts |-> Chain([m \in DOMAIN list |-> Extend(exts[j], list[m])])])

\* "for extender in self.extenders" of _extended_samples, from extender i on
RECURSIVE ExtendFrom(_, _, _)
ExtendFrom(exts, list, i) ==
    IF i > Len(exts) THEN list
    ELSE ExtendFrom(exts, Chain([j \in DOMAIN list |-> Extend(exts[i], list[j])]), i + 1)

\* list(self._extended_samples(samples))
ExtendedSamples(samples) ==
    Chain([j \in DOMAIN samples |-> ExtendFrom(extenders, <<samples[j]>>, 1)])

\* a draw with replacement in place of a shuffle
ShuffleWithReplacement(list) ==
    {[i \in DOMAIN list |-> list[f[i]]] : f \in [DOMAIN list -> DOMAIN list]}

\* random.shuffle(list): any order of the same elements
ShuffleResults(list) ==
    {[i \in DOMAIN list |-> list[p[i]]] : p \in Permutations(DOMAIN list)}

\* "if(self.shuffle): random.shuffle(samples)"
StoredOrders(list) == IF shuffle THEN ShuffleResults(list) ELSE {list}

\* shuffled lists are enumerated up to MaxShuffleLen elements
Enumerable(list) == ~shuffle \/ Len(list) <= MaxShuffleLen

\* Pipeline.get
CallGet ==
    /\ pc = "idle"
    /\ op' = "get"
    /\ LET r == ReducedSamples(input)
       IN  IF r.t # "ok"
           THEN /\ pc' = "raised"
                /\ err' = r.t
                /\ UNCHANGED adapter
           ELSE LET e == ExtendedSamples(r.list)
                IN  /\ Enumerable(e)
                    /\ \E s \in StoredOrders(e) :
                          adapter' = XYAdapter(s, mapper, batch_size)
                    /\ pc' = "done"
                    /\ UNCHANGED err
    /\ UNCHANGED <<pipelineVars, keylists, mutations, input, prior, sink, idx,
                   splitted_samples, adapters, consumerVars>>

\* common.split(samples, categories): the samples cut, in the order of the
\* categories, into one slice per category whose size is the category's share
\* of the samples rounded down or up
Sum3(f) ==
    LET g(c) == IF c \in DOMAIN f THEN f[c] ELSE 0
    IN  g("train") + g("validate") + g("test")

Before(c) ==
    IF c = "train" THEN {}
    ELSE IF c = "validate" THEN {"train"}
    ELSE {"train", "validate"}

SplitSizes(n, cats) ==
    {z \in [DOMAIN cats -> 0..n] :
        /\ Sum3(z) = n
        /\ \A c \in DOMAIN cats :
              /\ z[c] >= (n * cats[c]) \div 10
              /\ z[c] <= (n * cats[c] + 9) \div 10}

SplitUtility(samples, cats) ==
    {[c \in DOMAIN cats |->
        LET start == Sum3([b \in DOMAIN cats \cap Before(c) |-> z[b]])
        IN  SubSeq(samples, start + 1, start + z[c])] :
     z \in SplitSizes(Len(samples), cats)}

\* every group extended, not only "train"
TrainExtendedAll(g) ==
    {[c \in DOMAIN g |-> IF c = "train" THEN s ELSE ExtendedSamples(g[c])] :
        s \in IF "train" \in DOMAIN g
               THEN StoredOrders(ExtendedSamples(g["train"]))
               ELSE {<<>>}}

\* "if('train' in splitted_samples): ..." of split: the dicts it can leave
TrainExtended(g) ==
    IF "train" \in DOMAIN g
    THEN {[g EXCEPT !["train"] = s] : s \in StoredOrders(ExtendedSamples(g["train"]))}
    ELSE {g}

\* Pipeline.split
CallSplit ==
    /\ pc = "idle"
    /\ op' = "split"
    /\ LET r == ReducedSamples(input)
       IN  IF r.t # "ok"
           THEN /\ pc' = "raised"
                /\ err' = r.t
                /\ UNCHANGED <<splitted_samples, adapters>>
           ELSE \E g \in SplitUtility(r.list, categories) :
                    /\ "train" \in DOMAIN g => Enumerable(ExtendedSamples(g["train"]))
                    /\ splitted_samples' = g
                    /\ \E h \in TrainExtended(g) :
                          adapters' = [c \in DOMAIN h |->
                                          XYAdapter(h[c], mapper, batch_size)]
                    /\ pc' = "done"
                    /\ UNCHANGED err
    /\ UNCHANGED <<pipelineVars, keylists, mutations, input, prior, sink, idx,
                   adapter, consumerVars>>

\* a pipeline configured for get or split
InitPipeline ==
    /\ filters \in FilterLists
    /\ reducers \in ReducerLists
    /\ categories \in CategoryChoices
    /\ extenders \in SeqsUpTo(ExtenderNames, MaxExtenders)
    /\ shuffle \in BOOLEAN
    /\ Defaults
    /\ input \in SeqsUpTo(Corpus, MaxSamples)
    /\ prior = <<>>
    /\ sink = <<>>
    /\ NoCall
    /\ NoConsumer

NextPipeline == CallGet \/ CallSplit

SpecPipeline == InitPipeline /\ [][NextPipeline]_vars

\* ------------------------------------------------------------ XYAdapter
\* The stored samples of the adapters that are consumed: n distinct dicts
\* that all have "a" and "b".
Stored(n) == [i \in 1..n |-> MkSample([a |-> i, b |-> i + 1])]

MapperNames == {"identity", "pair"}

\* self.mapper(sample): identity, or lambda s: (s['a'], s['b'])
Mapped(m, s) ==
    IF m = "identity" THEN s ELSE <<GetItem(s, "a").v, GetItem(s, "b").v>>

\* a new iteration that goes on where the newest one stands
NewIteratorShared(existing) ==
    IF existing = <<>> THEN [pos |-> 0, live |-> TRUE] ELSE existing[Len(existing)].it

\* a generator of __iter__: pos is the position of "for sample in
\* self.samples", live turns FALSE when the generator function returns
NewIterator(existing) == [pos |-> 0, live |-> TRUE]

\* iter(adapter)
SampleIter(existing) == NewIterator(existing)

\* the for loop has a next sample
HasNext(it) == it.pos < Len(xy.samples)

\* the generator returns after one pass
AfterPassStop(it) == [it EXCEPT !.live = FALSE]

\* the for loop is exhausted: "while True" starts it again
AfterPass(it) == [it EXCEPT !.pos = 0]

\* "yield self.mapper(sample)": the value, and the generator suspended there
Yielded(it) == Mapped(xy.mapper, xy.samples[it.pos + 1])
Suspended(it) == [it EXCEPT !.pos = @ + 1]

Spin == IF spins < MaxSpin THEN spins + 1 ELSE spins

\* the consumer calls iter(xy)
NewIteration ==
    /\ running = Nobody
    /\ Len(iters) < MaxIterations
    /\ iters' = Append(iters, [it |-> SampleIter(iters), out |-> <<>>, ended |-> FALSE])
    /\ UNCHANGED <<xy, gens, running, spins, pulls, returned, mapper_calls>>
    /\ UNCHANGED <<pipelineVars, keylists, mutations, callVars, resultVars>>

\* the consumer calls next() on an iteration
PullIteration ==
    /\ running = Nobody
    /\ pulls < MaxPulls
    /\ \E i \in DOMAIN iters :
          /\ ~iters[i].ended
          /\ running' = [kind |-> "iter", id |-> i]
    /\ spins' = 0
    /\ pulls' = pulls + 1
    /\ UNCHANGED <<xy, iters, gens, returned, mapper_calls>>
    /\ UNCHANGED <<pipelineVars, keylists, mutations, callVars, resultVars>>

\* XYAdapter.__iter__ runs to its next yield, its return, or once around
\* "while True"
StepIteration ==
    /\ running.kind = "iter"
    /\ LET i == running.id
           it == iters[i].it
       IN  IF ~it.live
           THEN /\ iters' = [iters EXCEPT ![i].ended = TRUE]
                /\ running' = Nobody
                /\ returned' = returned + 1
                /\ UNCHANGED <<spins, mapper_calls>>
           ELSE IF HasNext(it)
           THEN /\ iters' = [iters EXCEPT ![i].it = Suspended(it),
                                          ![i].out = Append(@, Yielded(it))]
                /\ mapper_calls' = mapper_calls + 1
                /\ running' = Nobody
                /\ returned' = returned + 1
                /\ UNCHANGED spins
           ELSE /\ iters' = [iters EXCEPT ![i].it = AfterPass(it)]
                /\ spins' = Spin
                /\ UNCHANGED <<running, returned, mapper_calls>>
    /\ UNCHANGED <<xy, gens, pulls>>
    /\ UNCHANGED <<pipelineVars, keylists, mutations, callVars, resultVars>>

\* the consumer calls xy.batch_arrays(): "sample_iter = iter(self)"
NewBatches ==
    /\ running = Nobody
    /\ Len(gens) < MaxGenerators
    /\ gens' = Append(gens, [it |-> SampleIter(<<>>), batch_array |-> <<>>,
                             batches |-> <<>>, ended |-> FALSE])
    /\ UNCHANGED <<xy, iters, running, spins, pulls, returned, mapper_calls>>
    /\ UNCHANGED <<pipelineVars, keylists, mutations, callVars, resultVars>>

\* a batch begun on a new iteration
BatchBeginFresh(g) == [g EXCEPT !.batch_array = <<>>, !.it = SampleIter(<<>>)]

\* "batch_array = []"
BatchBegin(g) == [g EXCEPT !.batch_array = <<>>]

\* the consumer calls next() on a batch generator
PullBatch ==
    /\ running = Nobody
    /\ pulls < MaxPulls
    /\ \E g \in DOMAIN gens :
          /\ ~gens[g].ended
          /\ running' = [kind |-> "gen", id |-> g]
          /\ gens' = [gens EXCEPT ![g] = BatchBegin(gens[g])]
    /\ spins' = 0
    /\ pulls' = pulls + 1
    /\ UNCHANGED <<xy, iters, returned, mapper_calls>>
    /\ UNCHANGED <<pipelineVars, keylists, mutations, callVars, resultVars>>

\* "for i in range(self.batch_size)" is over
BatchFull(g) == Len(g.batch_array) >= xy.batch_size

\* XYAdapter.batch_arrays runs to its next append or yield, or once around the
\* "while True" of the iteration it pulls from
StepBatch ==
    /\ running.kind = "gen"
    /\ LET g == running.id
           it == gens[g].it
       IN  IF BatchFull(gens[g])
           THEN /\ gens' = [gens EXCEPT ![g].batches = Append(@, gens[g].batch_array)]
                /\ running' = Nobody
                /\ returned' = returned + 1
                /\ UNCHANGED <<spins, mapper_calls>>
           ELSE IF ~it.live
           THEN /\ gens' = [gens EXCEPT ![g].ended = TRUE]
                /\ running' = Nobody
                /\ returned' = returned + 1
                /\ UNCHANGED <<spins, mapper_calls>>
           ELSE IF HasNext(it)
           THEN /\ gens' = [gens EXCEPT ![g].it = Suspended(it),
                                        ![g].batch_array = Append(@, Yielded(it))]
                /\ mapper_calls' = mapper_calls + 1
                /\ UNCHANGED <<running, returned, spins>>
           ELSE /\ gens' = [gens EXCEPT ![g].it = AfterPass(it)]
                /\ spins' = Spin
                /\ UNCHANGED <<running, returned, mapper_calls>>
    /\ UNCHANGED <<xy, iters, pulls>>
    /\ UNCHANGED <<pipelineVars, keylists, mutations, callVars, resultVars>>

\* an XYAdapter constructed over 0..MaxStored samples, and a default pipeline
InitAdapter ==
    /\ filters = <<>>
    /\ reducers = <<>>
    /\ categories = DefaultCategories
    /\ extenders = <<>>
    /\ shuffle = TRUE
    /\ Defaults
    /\ input = <<>>
    /\ prior = <<>>
    /\ sink = <<>>
    /\ NoCall
    /\ xy \in {XYAdapter(Stored(n), m, b) :
                 n \in 0..MaxStored, m \in MapperNames, b \in 1..MaxBatchSize}
    /\ iters = <<>>
    /\ gens = <<>>
    /\ running = Nobody
    /\ spins = 0
    /\ pulls = 0
    /\ returned = 0
    /\ mapper_calls = 0

NextAdapter ==
    \/ NewIteration
    \/ PullIteration
    \/ StepIteration
    \/ NewBatches
    \/ PullBatch
    \/ StepBatch

SpecAdapter == InitAdapter /\ [][NextAdapter]_vars

\* ------------------------------------------------- reference definitions
\* the sample is kept: no filters, or some filter returns true for it
KeptRef(s) ==
    filters = <<>> \/ \E i \in DOMAIN filters : CallFilter(filters[i], s) = "True"

\* the reducers 1..n applied to s, the n-th to the result of the first n-1
RECURSIVE ReducedUpTo(_, _)
ReducedUpTo(s, n) ==
    IF n = 0 THEN s ELSE ApplyReducer(reducers[n], ReducedUpTo(s, n - 1)).s

KeptOf(seq) == SelectSeq(seq, KeptRef)

ReducedRef(seq) ==
    [i \in DOMAIN KeptOf(seq) |-> ReducedUpTo(KeptOf(seq)[i], Len(reducers))]

ExpectedSink(seq) == prior \o ReducedRef(seq)

\* a and b hold the same elements the same number of times
Occurrences(a, x) == Cardinality({i \in DOMAIN a : a[i] = x})
IsPermutation(a, b) ==
    /\ Len(a) = Len(b)
    /\ \A x \in ToSet(a) \cup ToSet(b) : Occurrences(a, x) = Occurrences(b, x)

\* the number of outputs of extender i per input, and of extenders i.. in a row
OutputsOf(i) == Len(ExtLabels(extenders[i]))
RECURSIVE FanOutFrom(_)
FanOutFrom(i) ==
    IF i > Len(extenders) THEN 1 ELSE OutputsOf(i) * FanOutFrom(i + 1)
FanOut == FanOutFrom(1)

\* output number o (from 0) of the extender chain on s: extender i contributes
\* its output number (o \div FanOutFrom(i + 1)) % OutputsOf(i)
Variant(s, o) ==
    [s EXCEPT !.aug =
        [i \in DOMAIN extenders |->
            ExtLabels(extenders[i])[((o \div FanOutFrom(i + 1)) % OutputsOf(i)) + 1]]]

\* a filter raises for s before any filter returned true
FilterRaisesAt(s, j) ==
    /\ CallFilter(filters[j], s) \notin {"True", "False"}
    /\ \A m \in 1..(j - 1) : CallFilter(filters[m], s) = "False"

\* reducer n raises after the reducers before it returned
ReducerRaisesAt(s, n) ==
    /\ ApplyReducer(reducers[n], ReducedUpTo(s, n - 1)).t # "ok"
    /\ \A m \in 1..(n - 1) : ApplyReducer(reducers[m], ReducedUpTo(s, m - 1)).t = "ok"

FilterRaises(s) == \E j \in DOMAIN filters : FilterRaisesAt(s, j)

RaisesRef(s) ==
    \/ FilterRaises(s)
    \/ KeptRef(s) /\ \E n \in DOMAIN reducers : ReducerRaisesAt(s, n)

ErrorRef(s) ==
    IF FilterRaises(s)
    THEN CallFilter(filters[CHOOSE j \in DOMAIN filters : FilterRaisesAt(s, j)], s)
    ELSE LET n == CHOOSE n \in DOMAIN reducers : ReducerRaisesAt(s, n)
         IN  ApplyReducer(reducers[n], ReducedUpTo(s, n - 1)).t

\* ----------------------------------------------------------------- claims
\* C1: after append_reduced_samples(S, sink) has returned, the sink is its
\* prior contents followed, in the order of S, by the reducers applied left to
\* right to each sample that some filter accepts (every sample when there are
\* no filters); nothing else is done to the samples.
C1_AppendIsFilterThenReduce ==
    (op = "append" /\ pc = "done") => sink = ExpectedSink(input)

\* C1's case: two filters, a reducer, a non-empty prior sink, a sample kept
\* although one filter rejects it, and a sample dropped.
C1_Witness ==
    /\ op = "append" /\ pc = "done"
    /\ Len(filters) = 2 /\ Len(reducers) >= 1 /\ prior # <<>>
    /\ \E i \in DOMAIN input :
          /\ KeptRef(input[i])
          /\ \E j \in DOMAIN filters : CallFilter(filters[j], input[i]) = "False"
    /\ \E i \in DOMAIN input : ~KeptRef(input[i])
    /\ Len(sink) > Len(prior)

\* C10: when a filter or reducer raises at the i-th input sample (the first
\* that raises), the call ends with that exception, the generator stays at
\* i, and the sink holds its prior contents and the reduced kept samples of
\* the first i-1 inputs.
C10_RaisePropagates ==
    (op = "append" /\ pc \in {"done", "raised"}) =>
        \A i \in DOMAIN input :
            (RaisesRef(input[i]) /\ \A m \in 1..(i - 1) : ~RaisesRef(input[m])) =>
                /\ pc = "raised"
                /\ err = ErrorRef(input[i])
                /\ idx = i
                /\ sink = ExpectedSink(SubSeq(input, 1, i - 1))

\* C10's case: the second sample raises after the first was appended, and a
\* third sample is left unexamined.
C10_Witness ==
    /\ op = "append" /\ pc = "raised" /\ err # "none"
    /\ idx = 2 /\ Len(input) = 3
    /\ Len(sink) = Len(prior) + 1

\* C7: a ReducedSample the pipeline built from its last reducer, the key
\* collection R, over the delegate d: a key of R looks up as it does in d, any
\* other key looks up as None, and keys() is R in R's order.
C7_ReducedSampleView ==
    (op = "append" /\ reducers # <<>> /\ ~reducers[Len(reducers)].callable) =>
        \A i \in (Len(prior) + 1)..Len(sink) :
            LET rs == sink[i]
                d  == ReducedUpTo(KeptOf(input)[i - Len(prior)], Len(reducers) - 1)
                R  == keylists[reducers[Len(reducers)].ref]
            IN  /\ IsReduced(rs)
                /\ \A k \in ProbeIds :
                      GetItem(rs, k) = IF k \in ToSet(R) THEN GetItem(d, k) ELSE NoneV
                /\ KeysOf(rs) = R

\* C7's case: a ReducedSample on ("c", "a") over a dict that has "b" and no
\* "c": "a" has its value, "b" is hidden, and "c" is enumerated.
C7_Witness ==
    /\ op = "append" /\ pc = "done"
    /\ \E i \in (Len(prior) + 1)..Len(sink) :
          /\ IsReduced(sink[i])
          /\ KeysOf(sink[i]) = <<"c", "a">>
          /\ DOMAIN sink[i].data = {"a", "b"}
          /\ GetItem(sink[i], "a") = Val(0)
          /\ GetItem(sink[i], "b") = NoneV

\* the sample at 0-based position k of the endless cycle over the stored list
Cycled(k) == xy.samples[(k % Len(xy.samples)) + 1]

\* C2: over n > 0 stored samples, the k-th value of every iteration is the
\* mapper applied to sample k mod n, whatever other iterations exist and
\* wherever they stand; no iteration ends, and a next() call goes around
\* "while True" at most once before it yields.
C2_IterationCycles ==
    Len(xy.samples) > 0 =>
        /\ \A i \in DOMAIN iters :
              /\ ~iters[i].ended
              /\ \A k \in DOMAIN iters[i].out :
                    iters[i].out[k] = Mapped(xy.mapper, Cycled(k - 1))
        /\ running.kind = "iter" => spins <= 1

\* C2's case: over three samples, the second iteration has yielded five
\* values (past the end of the list) while the first, started before it,
\* stands after its second.
C2_Witness ==
    /\ Len(xy.samples) = 3 /\ xy.mapper = "identity"
    /\ Len(iters) = 2
    /\ Len(iters[1].out) = 2
    /\ Len(iters[2].out) = 5
    /\ iters[2].out[5] = xy.samples[2]

\* C3: over n > 0 stored samples with batch size B, every batch has B
\* elements, element j of batch k (both from 0) is the mapper applied to
\* sample (k*B + j) mod n, and batch_arrays never ends.
C3_BatchesCycle ==
    Len(xy.samples) > 0 =>
        \A g \in DOMAIN gens :
            /\ ~gens[g].ended
            /\ \A k \in DOMAIN gens[g].batches :
                  /\ Len(gens[g].batches[k]) = xy.batch_size
                  /\ \A j \in 1..xy.batch_size :
                        gens[g].batches[k][j] =
                            Mapped(xy.mapper, Cycled((k - 1) * xy.batch_size + j - 1))

\* C3's case: two batches of three over two samples, each batch repeating a
\* sample within itself.
C3_Witness ==
    /\ Len(xy.samples) = 2 /\ xy.batch_size = 3 /\ xy.mapper = "identity"
    /\ \E g \in DOMAIN gens :
          /\ Len(gens[g].batches) = 2
          /\ gens[g].batches[1] = <<xy.samples[1], xy.samples[2], xy.samples[1]>>
          /\ gens[g].batches[2] = <<xy.samples[2], xy.samples[1], xy.samples[2]>>

\* C9: over zero stored samples no iteration and no batch generator ever
\* yields a value or ends, no next() call comes back, and the mapper is not
\* called.
C9_EmptyAdapterStalls ==
    Len(xy.samples) = 0 =>
        /\ \A i \in DOMAIN iters : iters[i].out = <<>> /\ ~iters[i].ended
        /\ \A g \in DOMAIN gens :
              /\ gens[g].batches = <<>>
              /\ gens[g].batch_array = <<>>
              /\ ~gens[g].ended
        /\ returned = 0
        /\ mapper_calls = 0
        /\ pulls > 0 => running # Nobody

\* C9's case: a next() call on a batch generator over zero samples has gone
\* around "while True" MaxSpin times and is still running.
C9_Witness ==
    /\ xy # NoAdapter
    /\ Len(xy.samples) = 0
    /\ Len(iters) >= 1
    /\ running.kind = "gen"
    /\ spins >= MaxSpin

\* C6: in get, each reduced sample yields the product of the extenders' output
\* counts, every composition of one output per extender in configured order
\* being stored, and in that order when shuffle is off; with no extenders
\* the sample itself is stored once.
C6_ExtendersCompose ==
    (op = "get" /\ pc = "done") =>
        LET R == ReducedRef(input)
        IN  /\ Len(adapter.samples) = Len(R) * FanOut
            /\ \A q \in DOMAIN R : \A o \in 0..(FanOut - 1) :
                  /\ Variant(R[q], o) \in ToSet(adapter.samples)
                  /\ ~shuffle => adapter.samples[(q - 1) * FanOut + o + 1] = Variant(R[q], o)
            /\ extenders = <<>> /\ ~shuffle => adapter.samples = R

\* C6's case: one sample through a 2-output and then a 3-output extender is
\* stored as 6 samples.
C6_Witness ==
    /\ op = "get" /\ pc = "done" /\ ~shuffle
    /\ extenders = <<"e2", "e3">>
    /\ Len(ReducedRef(input)) = 1
    /\ Len(adapter.samples) = 6
    /\ adapter.samples[4].aug = <<"q", "u">>

\* C5: the adapter get returns stores a permutation of the filtered, reduced
\* and extended input, and that sequence itself when shuffle is off.
C5_GetStoresPermutation ==
    (op = "get" /\ pc = "done") =>
        LET E == ExtendedSamples(ReducedRef(input))
        IN  /\ IsPermutation(adapter.samples, E)
            /\ ~shuffle => adapter.samples = E

\* C5's case: shuffle is on and the stored order differs from the extended
\* sequence, which has at least three samples, two of them equal.
C5_Witness ==
    /\ op = "get" /\ pc = "done" /\ shuffle /\ extenders # <<>>
    /\ Len(adapter.samples) >= 3
    /\ adapter.samples # ExtendedSamples(ReducedRef(input))
    /\ Cardinality(ToSet(adapter.samples)) < Len(adapter.samples)

C8_ReductionImmutable ==
    [][\A i \in DOMAIN sink :
         IsReduced(sink[i]) =>
            /\ \A k \in ProbeIds : GetItem(sink[i], k)' = GetItem(sink[i], k)
            /\ KeysOf(sink[i])' = KeysOf(sink[i])
            /\ ToSet(KeysOf(sink[i])) = Top(sink[i]).reduction_set]_vars

=============================================================================
